---- MODULE Spec2Model ----
(***************************************************************************)
(* A model of the slab allocator of src/src/lib.rs: the bitmap-tracked     *)
(* Chunk, the SlabAllocator that composes chunks, and the Box handle whose *)
(* Drop is the only path that gives a cell back.                           *)
(*                                                                         *)
(* usize::BITS (the word width W) and the const generic N (the number of   *)
(* chunks) are fixed at build time; Init draws them from small ranges.     *)
(* A free_list is an integer of exactly BITS bits.  A raw pointer is the   *)
(* place it points to: the location of the SlabAllocator value when the    *)
(* pointer was taken, the chunk offset and (for a cell) the cell offset.   *)
(***************************************************************************)
EXTENDS Integers, Sequences, FiniteSets, Bags, TLC

\* ---------------------------------------------------------------- bounds
\* Largest word width (usize::BITS) explored; the smallest one is 2.
MaxBits == 3
\* How often the SlabAllocator value is moved to another place.
MaxMoves == 1

\* The values of type T handed to boxed or written through a handle.  The
\* allocator stores and returns a value and never inspects it, so two
\* values that differ are enough to tell any two cells apart.
Values == {0, 1}

VARIABLES
    BITS,    \* usize::BITS of the build
    N,       \* const generic N of SlabAllocator<T, N>
    chunks,  \* SlabAllocator.chunks: [0..N-1 -> Chunk]
    at,      \* the place in memory where the SlabAllocator value lives now
    alive,   \* FALSE once the SlabAllocator value has been destroyed
    boxes,   \* the Box values the client holds, a bag (clones are equal)
    last     \* the last call made and what it returned

vars == <<BITS, N, chunks, at, alive, boxes, last>>

\* The client holds at most one handle more than a chunk has cells (clones
\* included): enough to fill chunk 0 and reach chunk 1.
MaxBoxes == BITS + 1

\* ------------------------------------------------------------ Option<T>
None == <<>>
Some(x) == <<x>>
unwrap(o) == o[1]

\* ------------------------------------------------- integers of BITS bits
RECURSIVE pow2(_)
pow2(n) == IF n = 0 THEN 1 ELSE 2 * pow2(n - 1)

\* usize::MAX and usize::MIN
USIZE_MAX == pow2(BITS) - 1
USIZE_MIN == 0

\* bit `shift` (0 = least significant) of x
bit(x, shift) == (x \div pow2(shift)) % 2

RECURSIVE bitop(_, _, _, _)
bitop(f, x, y, n) ==
    IF n = 0 THEN 0
    ELSE f[x % 2, y % 2] + 2 * bitop(f, x \div 2, y \div 2, n - 1)

bitand(x, y) == bitop([p \in {0, 1} \X {0, 1} |-> p[1] * p[2]], x, y, BITS)
\* |= written as ^=: the bit is toggled instead of set.
bitor_toggle(x, y) == bitop([p \in {0, 1} \X {0, 1} |-> (p[1] + p[2]) % 2], x, y, BITS)
bitor(x, y) == bitop([p \in {0, 1} \X {0, 1} |-> IF p[1] + p[2] > 0 THEN 1 ELSE 0], x, y, BITS)
bitxor(x, y) == bitop([p \in {0, 1} \X {0, 1} |-> (p[1] + p[2]) % 2], x, y, BITS)
bitnot(x) == USIZE_MAX - x
\* 1 << shift, truncated to the word
shl1(shift) == pow2(shift) % pow2(BITS)

\* usize::leading_zeros
RECURSIVE leading_zeros_from(_, _)
leading_zeros_from(x, n) ==
    IF n = 0 THEN 0
    ELSE IF bit(x, n - 1) = 1 THEN 0
    ELSE 1 + leading_zeros_from(x, n - 1)

\* The zero bits counted from the least significant end instead.
RECURSIVE trailing_zeros_from(_, _)
trailing_zeros_from(x, n) ==
    IF n = 0 THEN 0
    ELSE IF x % 2 = 1 THEN 0
    ELSE 1 + trailing_zeros_from(x \div 2, n - 1)

trailing_zeros(x) == trailing_zeros_from(x, BITS)

leading_zeros(x) == leading_zeros_from(x, BITS)

\* ------------------------------------------------------------ the masks
\* alloc_mask with the index not mirrored: bit pos counted from the least
\* significant end.
alloc_mask_lsb(pos) == bitxor(USIZE_MAX, shl1(pos))

alloc_mask(pos) ==
    LET shift == (BITS - 1) - pos
    IN  bitxor(USIZE_MAX, shl1(shift))

\* free_mask with the index not mirrored: bit pos counted from the least
\* significant end, against alloc_mask's convention.
free_mask_lsb(pos) == bitxor(bitnot(USIZE_MAX), shl1(pos))

\* free_mask returning what alloc_mask returns: every bit but the cell's.
free_mask_copy(pos) == alloc_mask(pos)

free_mask(pos) ==
    LET shift == (BITS - 1) - pos
    IN  bitxor(bitnot(USIZE_MAX), shl1(shift))

\* ---------------------------------------------------------------- Chunk
ELEMS == BITS

\* Chunk::new: every cell free, the cells themselves uninitialised (None).
ChunkNew == [free_list |-> USIZE_MAX, inner |-> [i \in 0..(ELEMS - 1) |-> None]]

\* first_free with the width test off by one: the last cell is never found.
first_free_short(chunk) ==
    LET lz == leading_zeros(chunk.free_list)
    IN  IF lz >= ELEMS - 1 THEN None ELSE Some(lz)

\* first_free counting the leading one bits of the free list.
first_free_ones(chunk) ==
    LET lo == leading_zeros(bitnot(chunk.free_list))
    IN  IF lo = ELEMS THEN None ELSE Some(lo)

first_free(chunk) ==
    LET lz == leading_zeros(chunk.free_list)
    IN  IF lz = ELEMS THEN None ELSE Some(lz)

empty(chunk) == chunk.free_list = USIZE_MAX

full(chunk) == chunk.free_list = USIZE_MIN

\* -------------------------------------------------------- SlabAllocator
CHUNK_MAX == BITS - 1

borrow_chunk(offset) == IF offset \in DOMAIN chunks THEN Some(chunks[offset]) ELSE None

\* The scan taking the first chunk that is empty instead of the first one
\* that is not full.
RECURSIVE scan_chunks_empty(_)
scan_chunks_empty(chunk_offset) ==
    IF chunk_offset >= CHUNK_MAX THEN None
    ELSE IF borrow_chunk(chunk_offset) = None THEN None
    ELSE IF empty(unwrap(borrow_chunk(chunk_offset))) THEN Some(chunk_offset)
    ELSE scan_chunks_empty(chunk_offset + 1)

\* The loop of find_chunk_with_space, from chunk_offset on.
RECURSIVE scan_chunks(_)
scan_chunks(chunk_offset) ==
    IF chunk_offset >= CHUNK_MAX THEN None
    ELSE IF borrow_chunk(chunk_offset) = None THEN None
    ELSE IF ~full(unwrap(borrow_chunk(chunk_offset))) THEN Some(chunk_offset)
    ELSE scan_chunks(chunk_offset + 1)

find_chunk_with_space == scan_chunks(0)

\* ------------------------------------------------------------------ Box
\* The Box that boxed builds for cell free_cell_offset of chunk offset.
NewBox(offset, free_cell_offset) ==
    [ free_mask |-> free_mask(free_cell_offset),
      chunk     |-> [at |-> at, offset |-> offset],
      inner     |-> [at |-> at, offset |-> offset, cell |-> free_cell_offset] ]

Held == BagToSet(boxes)
NBoxes == BagCardinality(boxes)

\* The handle's pointers still point into the SlabAllocator value.
Valid(b) == alive /\ b.chunk.at = at /\ b.inner.at = at

\* What a read through the handle yields.
as_ref(b) == chunks[b.inner.offset].inner[b.inner.cell]

\* The last call made and what it returned.
Call(op, res) == [op |-> op, res |-> res]

\* ----------------------------------------------------------------- Init
\* N ranges up to the word width itself, as in src/examples/basic.rs
\* (CHUNKS = usize::BITS).
Init ==
    /\ BITS \in 2..MaxBits
    /\ N \in 0..BITS
    /\ chunks = [c \in 0..(N - 1) |-> ChunkNew]
    /\ at = 0
    /\ alive = TRUE
    /\ boxes = EmptyBag
    /\ last = Call("new", None)

\* -------------------------------------------------------------- actions
\* SlabAllocator::boxed(value).  It returns None or Some(box); "panic" stands
\* for one of its two unwraps failing.
boxed(value) ==
    /\ alive
    /\ LET optional_chunk == find_chunk_with_space
       IN  IF optional_chunk = None
           THEN /\ last' = Call("boxed", None)
                /\ UNCHANGED <<chunks, boxes>>
           ELSE LET offset == unwrap(optional_chunk)
                    cell == IF offset \in DOMAIN chunks
                            THEN first_free(chunks[offset]) ELSE None
                IN  IF cell = None
                    THEN /\ last' = Call("panic", None)
                         /\ UNCHANGED <<chunks, boxes>>
                    ELSE LET free_cell_offset == unwrap(cell)
                             b == NewBox(offset, free_cell_offset)
                         IN  /\ NBoxes < MaxBoxes
                             /\ chunks' = [chunks EXCEPT
                                    ![offset].inner[free_cell_offset] = Some(value),
                                    ![offset].free_list =
                                        bitand(@, alloc_mask(free_cell_offset))]
                             /\ boxes' = boxes (+) SetToBag({b})
                             /\ last' = Call("boxed", Some(b))
    /\ UNCHANGED <<BITS, N, at, alive>>

\* A handle's pointers are raw: nothing ties a Box to the SlabAllocator it
\* came from, so a handle can be used when its pointers dangle (the
\* allocator was moved or destroyed).  That use is undefined behaviour; the
\* model takes every outcome a build can show: a dangling read yields any
\* value, a dangling write either lands in memory that is no longer the
\* allocator's, or (the move was elided, the place reused) in the cell of the
\* same offsets of the allocator as it is now.
Lands(b, hit) == hit /\ alive /\ b.chunk.offset \in DOMAIN chunks

\* Deref / AsRef: a read through a handle; it returns the cell's value.
deref(b) ==
    /\ b \in Held
    /\ IF Valid(b)
       THEN last' = Call("deref", as_ref(b))
       ELSE \E v \in Values : last' = Call("deref", Some(v))
    /\ UNCHANGED <<BITS, N, chunks, at, alive, boxes>>

\* DerefMut / AsMut: a write through a handle.
deref_mut(b, value) ==
    /\ b \in Held
    /\ \E hit \in BOOLEAN :
         /\ Valid(b) => hit
         /\ chunks' = IF Lands(b, hit)
                      THEN [chunks EXCEPT ![b.inner.offset].inner[b.inner.cell] = Some(value)]
                      ELSE chunks
    /\ last' = Call("deref_mut", None)
    /\ UNCHANGED <<BITS, N, at, alive, boxes>>

\* #[derive(Clone)]: a field-by-field copy of the handle.
clone(b) ==
    /\ b \in Held
    /\ NBoxes < MaxBoxes
    /\ boxes' = boxes (+) SetToBag({b})
    /\ last' = Call("clone", Some(b))
    /\ UNCHANGED <<BITS, N, chunks, at, alive>>

\* What Drop for Box does to the chunks ch: chunk.free_list |= self.free_mask.
released(ch, b) == [ch EXCEPT ![b.chunk.offset].free_list = bitor(@, b.free_mask)]

\* Drop for Box.
drop(b) ==
    /\ b \in Held
    /\ \E hit \in BOOLEAN :
         /\ Valid(b) => hit
         /\ chunks' = IF Lands(b, hit) THEN released(chunks, b) ELSE chunks
    /\ boxes' = boxes (-) SetToBag({b})
    /\ last' = Call("drop", None)
    /\ UNCHANGED <<BITS, N, at, alive>>

\* The SlabAllocator value is moved (returned, passed or assigned by value):
\* a bitwise copy to another place.  The handles keep their old pointers.
Move ==
    /\ alive
    /\ at < MaxMoves
    /\ at' = at + 1
    /\ last' = Call("move", None)
    /\ UNCHANGED <<BITS, N, chunks, alive, boxes>>

\* The SlabAllocator value goes out of scope or is dropped.
Destroy ==
    /\ alive
    /\ alive' = FALSE
    /\ last' = Call("destroy", None)
    /\ UNCHANGED <<BITS, N, chunks, at, boxes>>

\* The operations the API offers on the pool and its handles.
Next ==
    \/ \E value \in Values : boxed(value)
    \/ \E b \in Held : deref(b)
    \/ \E b \in Held : \E value \in Values : deref_mut(b, value)
    \/ \E b \in Held : clone(b)
    \/ \E b \in Held : drop(b)

Spec == Init /\ [][Next]_vars

\* The same with no handle ever released.
NextNoDrop ==
    \/ \E value \in Values : boxed(value)
    \/ \E b \in Held : deref(b)
    \/ \E b \in Held : \E value \in Values : deref_mut(b, value)
    \/ \E b \in Held : clone(b)

SpecNoDrop == Init /\ [][NextNoDrop]_vars

\* The same, and the allocator itself moved or destroyed while handles live.
NextMove ==
    \/ Next
    \/ Move
    \/ Destroy

\* Whether a handle outlives its allocator does not depend on the word width:
\* the smallest one is explored.
InitMove == Init /\ BITS = 2

SpecMove == InitMove /\ [][NextMove]_vars

\* ================================================================ claims
\* Bit i of a chunk's free mask in the convention of the specification:
\* index 0 is the most significant bit.
CellBit(c, i) == bit(chunks[c].free_list, (BITS - 1) - i)

\* The handles held for cell i of chunk c.
HandlesOf(c, i) == {b \in Held : b.inner.offset = c /\ b.inner.cell = i}

\* A successful boxed was the last call; Returned is the Box it returned.
Allocated == last.op = "boxed" /\ last.res # None
Returned == unwrap(last.res)

\* C1: in every state reached by boxed, reads, writes, clone and drop, bit i
\* of chunk c's free mask is 0 exactly when a live handle holds cell i of c.
C1_MaskTracksHandles ==
    \A c \in DOMAIN chunks : \A i \in 0..(BITS - 1) :
        (CellBit(c, i) = 0) <=> (HandlesOf(c, i) # {})

\* C2: no two live handles reference the same cell of the same chunk.
C2_OneHandlePerCell ==
    \A b \in Held :
        /\ CopiesIn(b, boxes) = 1
        /\ HandlesOf(b.inner.offset, b.inner.cell) = {b}

\* C3: boxed returns None only if every one of the N chunks is full, for
\* every N, the word width and beyond included.
C3_NoneOnlyIfAllFull ==
    last = Call("boxed", None) => \A c \in DOMAIN chunks : full(chunks[c])

\* C4: the number of outstanding handles is at most N * W in every state
\* (so that no more than N * W allocations are outstanding at once).
C4_AtMostCapacityHandles == NBoxes <= N * BITS

\* C5: the releases of a cell alternate with its allocations: whenever a
\* handle's drop sets a bit free, the bit was occupied (the cell had not been
\* released since it was allocated).
C5_ReleasedOnce ==
    [][\A b \in Held : drop(b) => CellBit(b.chunk.offset, b.inner.cell) = 0]_vars

\* C6: once every outstanding handle has been dropped, in whatever order,
\* every chunk's free mask is all ones again: every chunk reports empty.
C6_AllDroppedAllEmpty ==
    boxes = EmptyBag => \A c \in DOMAIN chunks : empty(chunks[c])

\* C6 witness: allocations reached chunk 1, and the last handle was dropped.
C6_Witness ==
    /\ boxes = EmptyBag
    /\ last.op = "drop"
    /\ 1 \in DOMAIN chunks
    /\ chunks[1].inner[0] # None

\* C7: the handle boxed(v) returns reads v, and a handle that stays live
\* reads the same value after every step that is not a write through it.
C7_RoundTrip ==
    [][ /\ \A v \in Values : (boxed(v) /\ Allocated') => as_ref(Returned)' = Some(v)
        /\ \A b \in Held :
              (b \in Held' /\ ~(\E v \in Values : deref_mut(b, v)))
                  => as_ref(b)' = as_ref(b) ]_vars

\* C8: when boxed places a value in chunk i, every chunk j < i is full at
\* that moment and chunk i is not: the lowest-indexed chunk with a free cell
\* is the one chosen.
C8_LowestChunkFirst ==
    [][ Allocated' =>
          LET i == Returned'.chunk.offset
          IN  /\ \A j \in 0..(i - 1) : full(chunks[j])
              /\ ~full(chunks[i]) ]_vars

\* C8 witness: boxed has just placed a value in chunk 1, chunk 0 being full.
C8_Witness ==
    /\ Allocated
    /\ Returned.chunk.offset = 1
    /\ full(chunks[0])

\* C9: a boxed that returns no handle returns None without panicking, and
\* leaves every free mask, every cell and every live handle as they were.
C9_NoneChangesNothing ==
    [][ (last'.op \in {"boxed", "panic"} /\ last'.res = None) =>
          /\ last'.op = "boxed"
          /\ chunks' = chunks
          /\ boxes' = boxes
          /\ \A b \in Held : as_ref(b)' = as_ref(b) ]_vars

\* C9 witness: the pool is exhausted while handles are live, and boxed has
\* just returned None.
C9_Witness ==
    /\ last = Call("boxed", None)
    /\ boxes # EmptyBag

\* C10: no handle is read, written or dropped after the allocator that
\* issued it has been moved or destroyed.
C10_NoUseAfterMove ==
    [][\A b \in Held :
          (deref(b) \/ (\E v \in Values : deref_mut(b, v)) \/ drop(b))
              => Valid(b)]_vars

\* C11: in a pool of one chunk with no handle released, after k successful
\* allocations (each returned a handle for another cell) the k most
\* significant bits of the free mask are cleared and the W - k others set:
\* the mask is all ones shifted right by k; the chunk is full exactly when
\* k = W.
C11_MaskAfterKAllocations ==
    N = 1 =>
        LET k == Cardinality(Held)
        IN  /\ chunks[0].free_list = USIZE_MAX \div pow2(k)
            /\ Cardinality({i \in 0..(BITS - 1) : CellBit(0, i) = 1}) = BITS - k
            /\ full(chunks[0]) <=> (k = BITS)

\* C11 witness: the W-th allocation of a one-chunk pool has just been made.
C11_Witness ==
    /\ N = 1
    /\ Allocated
    /\ Cardinality(Held) = BITS
    /\ full(chunks[0])

\* C12: allocate and release are inverse on the bitmap: the drop of the
\* handle a successful boxed has just returned gives every chunk the free
\* mask it had before that boxed.
C12_AllocateThenDropRestores ==
    [][ Allocated' =>
          \A c \in DOMAIN chunks :
              released(chunks', Returned')[c].free_list = chunks[c].free_list ]_vars

\* C12 witness: boxed has just filled the hole at cell 0 of chunk 0, cell 1
\* being occupied.
C12_Witness ==
    /\ Allocated
    /\ Returned.chunk.offset = 0
    /\ Returned.inner.cell = 0
    /\ CellBit(0, 1) = 0

\* The free cells of chunk c, in the convention of the specification.
FreeCells(c) == {i \in 0..(BITS - 1) : CellBit(c, i) = 1}

\* C13: for every free mask reached, holes included, first_free is the
\* lowest-indexed free cell, and None exactly when the chunk is full.
C13_FirstFreeIsLowestFree ==
    \A c \in DOMAIN chunks :
        /\ (first_free(chunks[c]) = None) <=> full(chunks[c])
        /\ full(chunks[c]) <=> (FreeCells(c) = {})
        /\ FreeCells(c) # {} =>
              /\ first_free(chunks[c]) # None
              /\ unwrap(first_free(chunks[c])) \in FreeCells(c)
              /\ \A i \in FreeCells(c) : unwrap(first_free(chunks[c])) <= i

\* C13 witness: a mask with a hole: cell 0 occupied, cell 1 released, cell 2
\* occupied, and first_free finds cell 1.
C13_Witness ==
    /\ last.op = "drop"
    /\ BITS >= 3
    /\ 0 \in DOMAIN chunks
    /\ CellBit(0, 0) = 0 /\ CellBit(0, 1) = 1 /\ CellBit(0, 2) = 0
    /\ first_free(chunks[0]) = Some(1)

\* The number of leading bits of chunk c's free mask that are all v,
\* counted from index 0 (the most significant bit).
LeadingCount(c, v) ==
    Cardinality({i \in 0..(BITS - 1) : \A j \in 0..i : CellBit(c, j) = v})

\* C14 as stated: first_free is the count of leading one-bits of the free
\* mask, and None exactly when that count is the word width.
C14_CountOfLeadingOnes ==
    \A c \in DOMAIN chunks :
        first_free(chunks[c]) =
            IF LeadingCount(c, 1) = BITS THEN None ELSE Some(LeadingCount(c, 1))

\* C14 amended: first_free is the count of leading zero-bits of the free
\* mask (the occupied cells before the first free one), and None exactly
\* when that count is the word width.
C14_CountOfLeadingZeros ==
    \A c \in DOMAIN chunks :
        first_free(chunks[c]) =
            IF LeadingCount(c, 0) = BITS THEN None ELSE Some(LeadingCount(c, 0))

\* C14 witness: after an allocation, a mask with one leading zero-bit and no
\* leading one-bit, where first_free is 1.
C14_Witness ==
    /\ Allocated
    /\ \E c \in DOMAIN chunks :
          /\ LeadingCount(c, 0) = 1
          /\ LeadingCount(c, 1) = 0
          /\ first_free(chunks[c]) = Some(1)

\* The cells of the pool: chunk offset and cell offset.
Cells == (DOMAIN chunks) \X (0..(BITS - 1))

\* C15: the drop of a handle sets the bit of its own cell (bit W-1-index of
\* its own chunk) and changes nothing else: no other bit of that chunk, no
\* other chunk's mask, no cell value, nothing a live handle reads.
C15_DropSetsOnlyItsBit ==
    [][\A b \in Held : (last'.op = "drop" /\ drop(b)) =>
          /\ b.inner.offset = b.chunk.offset
          /\ CellBit(b.chunk.offset, b.inner.cell)' = 1
          /\ \A i \in 0..(BITS - 1) :
                i # b.inner.cell
                    => CellBit(b.chunk.offset, i)' = CellBit(b.chunk.offset, i)
          /\ \A c \in DOMAIN chunks :
                /\ c # b.chunk.offset => chunks'[c].free_list = chunks[c].free_list
                /\ chunks'[c].inner = chunks[c].inner
          /\ \A h \in Held : h \in Held' => as_ref(h)' = as_ref(h) ]_vars

\* C15 witness: a handle of chunk 1 has just been dropped, chunk 0 full.
C15_Witness ==
    /\ last.op = "drop"
    /\ 1 \in DOMAIN chunks
    /\ chunks[1].inner[0] # None
    /\ CellBit(1, 0) = 1
    /\ full(chunks[0])

\* C16: a successful boxed clears one bit, which was free, of one chunk,
\* writes that cell only and sets no bit; and a bit goes from occupied to
\* free only in the drop of a handle for that cell.
C16_AllocateClearsOneFreeBit ==
    [][ /\ Allocated' =>
              \E cell \in Cells :
                  /\ Returned'.chunk.offset = cell[1]
                  /\ Returned'.inner.offset = cell[1]
                  /\ Returned'.inner.cell = cell[2]
                  /\ CellBit(cell[1], cell[2]) = 1
                  /\ CellBit(cell[1], cell[2])' = 0
                  /\ \A p \in Cells \ {cell} :
                        /\ CellBit(p[1], p[2])' = CellBit(p[1], p[2])
                        /\ chunks'[p[1]].inner[p[2]] = chunks[p[1]].inner[p[2]]
        /\ \A c \in DOMAIN chunks :
              chunks'[c].free_list # chunks[c].free_list =>
                  \A i \in 0..(BITS - 1) :
                      (CellBit(c, i) = 0 /\ CellBit(c, i)' = 1)
                          => \E b \in HandlesOf(c, i) : drop(b) ]_vars

\* C16 witness: boxed has just filled a hole of chunk 0 while a cell of
\* chunk 1 is occupied.
C16_Witness ==
    /\ Allocated
    /\ Returned.chunk.offset = 0
    /\ 1 \in DOMAIN chunks
    /\ CellBit(1, 0) = 0

\* C17: when boxed has returned None and a handle is dropped next, the next
\* boxed succeeds and takes exactly the cell just released: the scan finds
\* that handle's chunk, and first_free that handle's cell.
C17_RecoversReleasedCell ==
    [][\A b \in Held : (last = Call("boxed", None) /\ drop(b)) =>
          /\ find_chunk_with_space' = Some(b.chunk.offset)
          /\ first_free(chunks'[b.chunk.offset]) = Some(b.inner.cell)
          /\ NBoxes' < MaxBoxes ]_vars

\* C17 witness: a handle has just been dropped and its cell, the last one of
\* chunk 0, is the only free cell the scan can find.
C17_Witness ==
    /\ last.op = "drop"
    /\ find_chunk_with_space = Some(0)
    /\ FreeCells(0) = {BITS - 1}
    /\ \A c \in DOMAIN chunks : (c # 0 /\ c < CHUNK_MAX) => full(chunks[c])

\* C18: the release of a cell whose bit is already free leaves every free
\* mask as it was.
C18_ReleaseOfFreeCellChangesNothing ==
    [][\A b \in Held :
          (last'.op = "drop" /\ CellBit(b.chunk.offset, b.inner.cell) = 1 /\ drop(b))
              => \A c \in DOMAIN chunks : chunks'[c].free_list = chunks[c].free_list]_vars

\* C18 witness: a handle has just been dropped while another handle for an
\* already released cell is held, the cell after it being occupied.
C18_Witness ==
    /\ last.op = "drop"
    /\ \E b \in Held :
          /\ CellBit(b.chunk.offset, b.inner.cell) = 1
          /\ b.inner.cell = 0
          /\ CellBit(b.chunk.offset, 1) = 0

====
